---------------------------- MODULE Spec2Model ----------------------------
(***************************************************************************)
(* ThirstIQ dashboard (src/Project-ThirstIQ/project/src/components/        *)
(* Dashboard.tsx): the chat handler, the weather fetch and its             *)
(* continuations, the hydration planner and the task-completion handler,   *)
(* as a state machine over the component's React state.                    *)
(*                                                                         *)
(* Conventions.                                                            *)
(*  - A text is a sequence of characters, each a string: a printable       *)
(*    ASCII character is itself, TAB, LF, FF and CR are "\t", "\n", "\f"    *)
(*    and "\r", and any other character is the name of its code point,      *)
(*    as "U+00A0".                                                         *)
(*  - A number is an IEEE 754 double: integers are exact below 2^53,       *)
(*    rounded to the nearest double, ties to even, from there on, and      *)
(*    Infinity once the rounded value reaches 2^1024. Infinity is written  *)
(*    -1, a value no amount or intake takes otherwise.                     *)
(*  - A handler runs atomically: React commits the state updates of a      *)
(*    discrete event before the next event is dispatched, and the          *)
(*    continuation of the awaited fetch runs in microtasks no user event   *)
(*    can interleave with.                                                 *)
(*  - The text of the input box is the payload of the submit event; the    *)
(*    handler's own guard (line 157) is what the model keeps, so a submit  *)
(*    may arrive with any text in any state.                               *)
(*  - A chat message keeps its author, the template that produced it and,  *)
(*    for a user message, the text; ids, timestamps and the numbers        *)
(*    interpolated into a bot message are display-only and left out, as    *)
(*    are toast notifications.                                             *)
(*  - State updater functions run once per update (a production build).    *)
(***************************************************************************)
EXTENDS Integers, Sequences, FiniteSets, TLC

-----------------------------------------------------------------------------
(* Bounds of the model.                                                    *)

\* Longest chat history explored; a submit appends at most 3 messages.
MaxMessages == 9
\* Longest chat history of the accounting specification.
MaxLedgerMessages == 10
\* The enumerated chat texts of the classifier specification are at most this long.
MaxTextLen == 4
\* Number of values Math.random() * 59 is sampled at, spread over 0..58.
NumMinuteSamples == 2
\* Temperatures explored by the planner specification: 25 +/- TempSpan degrees.
TempSpan == 11
\* Humidities explored by the planner specification: 60 +/- HumSpan percent.
HumSpan == 21
\* The complete-task event is explored for ids task-0 .. task-NumTapIds.
NumTapIds == 1
\* Goals explored by the schedule specification: 0..GoalSteps degrees over 25
\* and 0..GoalSteps percent over 60.
GoalSteps == 3

-----------------------------------------------------------------------------
(* Characters and the two regular expressions of handleSendMessage.        *)

Digits == {"0", "1", "2", "3", "4", "5", "6", "7", "8", "9"}

LowerLetters ==
  {"a", "b", "c", "d", "e", "f", "g", "h", "i", "j", "k", "l", "m",
   "n", "o", "p", "q", "r", "s", "t", "u", "v", "w", "x", "y", "z"}

UpperLetters ==
  {"A", "B", "C", "D", "E", "F", "G", "H", "I", "J", "K", "L", "M",
   "N", "O", "P", "Q", "R", "S", "T", "U", "V", "W", "X", "Y", "Z"}

\* \s of a JavaScript regular expression, and what String.prototype.trim
\* strips: WhiteSpace and LineTerminator of ECMAScript (TAB, LF, VT, FF, CR,
\* SP, NBSP, the Unicode space separators, LS, PS and ZWNBSP).
WhiteSpace ==
  {"\t", "\n", "U+000B", "\f", "\r", " ", "U+00A0", "U+1680",
   "U+2000", "U+2001", "U+2002", "U+2003", "U+2004", "U+2005", "U+2006",
   "U+2007", "U+2008", "U+2009", "U+200A", "U+2028", "U+2029", "U+202F",
   "U+205F", "U+3000", "U+FEFF"}

\* The character class [a-zA-Z\s].
LetterOrSpace == LowerLetters \cup UpperLetters \cup WhiteSpace

DigitVal(c) ==
  CASE c = "0" -> 0 [] c = "1" -> 1 [] c = "2" -> 2 [] c = "3" -> 3
    [] c = "4" -> 4 [] c = "5" -> 5 [] c = "6" -> 6 [] c = "7" -> 7
    [] c = "8" -> 8 [] c = "9" -> 9

RECURSIVE TrimStart(_)
TrimStart(s) ==
  IF s # << >> /\ Head(s) \in WhiteSpace THEN TrimStart(Tail(s)) ELSE s

RECURSIVE TrimEnd(_)
TrimEnd(s) ==
  IF s # << >> /\ s[Len(s)] \in WhiteSpace
    THEN TrimEnd(SubSeq(s, 1, Len(s) - 1))
    ELSE s

\* input.trim()
Trim(s) == TrimEnd(TrimStart(s))

\* The first position >= i whose character is not in the class (Len(s)+1 if none):
\* where a greedy cls* started at i stops.
RECURSIVE SkipClass(_, _, _)
SkipClass(s, i, cls) ==
  IF i <= Len(s) /\ s[i] \in cls THEN SkipClass(s, i + 1, cls) ELSE i

\* userMessage.match(/^[a-zA-Z\s]+$/)
MatchesLocation(s) == s # << >> /\ SkipClass(s, 1, LetterOrSpace) = Len(s) + 1

\* Mutant of UnitAt: the unit matched in any letter case, as under an i flag.
UnitAtAnyCase(s, i) ==
  /\ i + 1 <= Len(s)
  /\ s[i] \in {"m", "M"}
  /\ s[i + 1] \in {"l", "L"}

\* The alternation (ml|ML|mL) tried at position i.
UnitAt(s, i) ==
  /\ i + 1 <= Len(s)
  /\ \/ s[i] = "m" /\ s[i + 1] = "l"
     \/ s[i] = "M" /\ s[i + 1] = "L"
     \/ s[i] = "m" /\ s[i + 1] = "L"

\* /\d+\s*(ml|ML|mL)/ tried at start position i: \d+ and \s* are greedy, and
\* giving characters back never helps, since a digit is neither white space
\* nor a unit letter and white space is no unit letter.
VolumeMatchAt(s, i) ==
  /\ i <= Len(s)
  /\ s[i] \in Digits
  /\ UnitAt(s, SkipClass(s, SkipClass(s, i, Digits), WhiteSpace))

\* userMessage.match(/\d+\s*(ml|ML|mL)/): the search tries every start position.
MatchesVolume(s) == \E i \in 1..Len(s) : VolumeMatchAt(s, i)

\* The first position holding a digit (Len(s)+1 if none).
RECURSIVE FirstDigit(_, _)
FirstDigit(s, i) ==
  IF i <= Len(s) /\ s[i] \notin Digits THEN FirstDigit(s, i + 1) ELSE i

\* userMessage.match(/\d+/)?.[0]: the first maximal digit run, << >> if none.
FirstDigitRun(s) ==
  LET i == FirstDigit(s, 1)
  IN  IF i > Len(s) THEN << >> ELSE SubSeq(s, i, SkipClass(s, i, Digits) - 1)

\* The number of binary digits of a natural number.
RECURSIVE BitLength(_)
BitLength(n) == IF n = 0 THEN 0 ELSE 1 + BitLength(n \div 2)

\* The bits of the significand of a double.
DoubleMantissa == 53

\* A double is below 2^1024.
DoubleMaxBits == 1024

\* The double +Infinity.
Infinity == -1

\* The double nearest to a natural number, ties to the even significand: the
\* number itself when it has at most 53 binary digits, Infinity when the
\* rounded value has more than 1024.
ToDouble(n) ==
  IF n = Infinity THEN Infinity
  ELSE IF BitLength(n) <= DoubleMantissa THEN n
  ELSE LET unit == 2 ^ (BitLength(n) - DoubleMantissa)
           low == n \div unit
           rest == n % unit
           rounded == IF 2 * rest > unit \/ (2 * rest = unit /\ low % 2 = 1)
                        THEN (low + 1) * unit
                        ELSE low * unit
       IN  IF BitLength(rounded) > DoubleMaxBits THEN Infinity ELSE rounded

\* a + b of two doubles, each a natural number or Infinity.
DoubleSum(a, b) ==
  IF a = Infinity \/ b = Infinity THEN Infinity ELSE ToDouble(a + b)

\* The mathematical value of a string of decimal digits.
RECURSIVE DecimalValue(_)
DecimalValue(ds) ==
  IF ds = << >> THEN 0
  ELSE 10 * DecimalValue(SubSeq(ds, 1, Len(ds) - 1)) + DigitVal(ds[Len(ds)])

\* parseInt of a string of decimal digits: its value as a double.
ParseInt(ds) == ToDouble(DecimalValue(ds))

\* parseInt(userMessage.match(/\d+/)?.[0] || '0')
ParseAmount(s) ==
  LET run == FirstDigitRun(s)
  IN  IF run = << >> THEN ParseInt(<<"0">>) ELSE ParseInt(run)

\* The branch of handleSendMessage a trimmed, non-empty text takes.
Classify(s) ==
  IF MatchesLocation(s) THEN "Location"
  ELSE IF MatchesVolume(s) THEN "VolumeLog"
  ELSE "Unrecognized"

-----------------------------------------------------------------------------
(* The hydration planner.                                                  *)

\* Math.round(n / d) for integers n and d > 0: the nearest integer, a half
\* rounding towards +Infinity.
MathRound(n, d) == (2 * n + d) \div (2 * d)

\* let baseIntake = 2000 (line 126)
BaseIntake == 2000
\* if (weatherData.temp > 25) (line 128)
TempThreshold == 25
\* baseIntake += (weatherData.temp - 25) * 50 (line 129)
TempFactor == 50
\* if (weatherData.humidity > 60) (line 132)
HumidityThreshold == 60
\* baseIntake += (weatherData.humidity - 60) * 20 (line 133)
HumidityFactor == 20
\* const tasksCount = 8 (line 31)
TasksCount == 8
\* taskTime.setHours(9 + ...) (line 36)
FirstHour == 9
\* ... Math.floor(i * (12 / tasksCount)) (line 36)
HoursSpan == 12
\* Math.random() * 59 (line 37)
MinuteScale == 59

\* Mutant of WithTempSurcharge: the surcharge applied without its guard.
WithTempSurchargeUnguarded(temp) ==
  BaseIntake + (temp - TempThreshold) * TempFactor

\* baseIntake after the temperature surcharge (lines 126-130).
WithTempSurcharge(temp) ==
  IF temp > TempThreshold
    THEN BaseIntake + (temp - TempThreshold) * TempFactor
    ELSE BaseIntake

\* The surcharge of lines 132-134.
HumiditySurcharge(humidity) ==
  IF humidity > HumidityThreshold
    THEN (humidity - HumidityThreshold) * HumidityFactor
    ELSE 0

\* roundedIntake of calculateHydrationNeeds (lines 126-136).
RoundedIntake(weatherData) ==
  MathRound(WithTempSurcharge(weatherData.temp)
              + HumiditySurcharge(weatherData.humidity), 1)

\* `task-${i}` (line 40)
TaskId(i) == <<"task", i>>

\* Mutant of AmountPerTask: Math.floor in place of Math.round.
AmountPerTaskFloor(dailyGoal) == dailyGoal \div TasksCount

\* const amountPerTask = Math.round(dailyGoal / tasksCount) (line 32)
AmountPerTask(dailyGoal) == MathRound(dailyGoal, TasksCount)

\* 9 + Math.floor(i * (12 / tasksCount)) (line 36)
TaskHour(i) == FirstHour + ((i * HoursSpan) \div TasksCount)

\* The task pushed at index i (lines 35-44); rnd[i] is the whole part of
\* Math.random() * 59, which setMinutes keeps. A time is minutes since
\* midnight: the date, seconds and milliseconds are those of `now` for all tasks.
NewTask(dailyGoal, i, rnd) ==
  [id |-> TaskId(i),
   time |-> TaskHour(i) * 60 + rnd[i],
   amount |-> AmountPerTask(dailyGoal),
   completed |-> FALSE]

\* tasks after the loop of lines 34-45.
PushedTasks(dailyGoal, n, rnd) ==
  [k \in 1..n |-> NewTask(dailyGoal, k - 1, rnd)]

\* The comparator of line 47: a.time.getTime() - b.time.getTime().
CompareTime(a, b) == a.time - b.time

\* The place of tasks[k] after a stable sort by the comparator: behind the
\* tasks that compare less and the earlier tasks that compare equal.
SortedPlace(tasks, k) ==
  1 + Cardinality({j \in 1..Len(tasks) :
                     \/ CompareTime(tasks[j], tasks[k]) < 0
                     \/ CompareTime(tasks[j], tasks[k]) = 0 /\ j < k})

\* tasks.sort((a, b) => a.time.getTime() - b.time.getTime()) (line 47); the
\* sort is stable, which fixes its result whatever the engine's algorithm.
SortByTime(tasks) ==
  [p \in 1..Len(tasks) |->
     tasks[CHOOSE k \in 1..Len(tasks) : SortedPlace(tasks, k) = p]]

\* generateTasks(dailyGoal) with the random draws rnd (lines 28-48).
\* (The pushed tasks are bound as a value, so that they are built once.)
generateTasks(dailyGoal, rnd) ==
  CHOOSE sorted \in {SortByTime(tasks) :
                       tasks \in {PushedTasks(dailyGoal, TasksCount, rnd)}} : TRUE

\* Mutant of TaskDelta: the amount counted whether or not the task is completed.
TaskDeltaAlways(task, taskId) ==
  IF task.id = taskId THEN task.amount ELSE 0

\* The effect of one task of prev.map(...) on the intake (lines 144-148).
TaskDelta(task, taskId) ==
  IF task.id = taskId /\ ~task.completed THEN task.amount ELSE 0

\* What the updater of handleTaskCompletion adds to waterIntake over the
\* first n tasks of the batch.
RECURSIVE IntakeDeltaUpTo(_, _, _)
IntakeDeltaUpTo(tasks, taskId, n) ==
  IF n = 0 THEN 0
  ELSE IntakeDeltaUpTo(tasks, taskId, n - 1) + TaskDelta(tasks[n], taskId)

\* What the updater of handleTaskCompletion adds to waterIntake over the batch.
IntakeDelta(tasks, taskId) == IntakeDeltaUpTo(tasks, taskId, Len(tasks))

\* Mutant of MarkCompleted: the tapped task is not marked completed.
MarkCompletedForgetful(tasks, taskId) == tasks

\* prev.map(task => ...) of handleTaskCompletion (lines 143-152).
MarkCompleted(tasks, taskId) ==
  [k \in 1..Len(tasks) |->
     IF tasks[k].id = taskId
       THEN [tasks[k] EXCEPT !.completed = TRUE]
       ELSE tasks[k]]

-----------------------------------------------------------------------------
(* The component's state.                                                  *)

VARIABLES
  messages,         \* useState<Message[]>([]) (line 51)
  isLoading,        \* useState(false) (line 53)
  weather,          \* useState<WeatherData | null>(null) (line 54)
  waterIntake,      \* useState(0) (line 55)
  dailyGoal,        \* useState(2000) (line 56)
  waterTasks,       \* useState<WaterTask[]>([]) (line 57)
  currentLocation,  \* useState<string>('') (line 58)
  inflight,         \* the axios.get calls awaited at line 86, each with the
                    \* values the suspended handler's closure rendered with
  lastEvent,        \* history: the last event handled and the state before it
  ledger            \* history: the amounts logged and the amounts of the tasks
                    \* seen to become completed, in all and in the current batch

vars ==
  <<messages, isLoading, weather, waterIntake, dailyGoal, waterTasks,
    currentLocation, inflight, lastEvent, ledger>>

\* useState<WeatherData | null>(null)
NoWeather == [temp |-> "null"]

\* The component's state as one record.
View ==
  [messages |-> messages, isLoading |-> isLoading, weather |-> weather,
   waterIntake |-> waterIntake, dailyGoal |-> dailyGoal,
   waterTasks |-> waterTasks, currentLocation |-> currentLocation,
   inflight |-> inflight]

\* The message addBotMessage appends, by the template of its content.
BotMessage(template) == [type |-> "bot", template |-> template, content |-> << >>]

\* addBotMessage(content) applied to the message list (lines 74-81).
addBotMessage(list, template) == Append(list, BotMessage(template))

\* The message handleSendMessage appends for the user (lines 162-167).
UserMessage(userMessage) ==
  [type |-> "user", template |-> "input", content |-> userMessage]

\* The two greetings of the mount effect (lines 69-72).
Greetings == <<BotMessage("hello"), BotMessage("askLocation")>>

Init ==
  /\ messages = Greetings
  /\ isLoading = FALSE
  /\ weather = NoWeather
  /\ waterIntake = 0
  /\ dailyGoal = BaseIntake
  /\ waterTasks = << >>
  /\ currentLocation = << >>
  /\ inflight = << >>
  /\ lastEvent = [op |-> "mount", arg |-> << >>, pre |-> << >>]
  /\ ledger = [logged |-> 0, completed |-> 0, sinceBatch |-> 0]

\* Mutant of SubmitRejected: the input tested without being trimmed.
SubmitRejectedUntrimmed(input) == input = << >> \/ isLoading

\* Mutant of SubmitRejected: the loading flag not tested.
SubmitRejectedNoLoading(input) == Trim(input) = << >>

\* The early return of handleSendMessage (line 157).
SubmitRejected(input) == Trim(input) = << >> \/ isLoading

\* Mutant of GoalReached: the progress taken from the intake before the log.
GoalReachedStale(amount) ==
  waterIntake = Infinity \/ waterIntake * 100 >= 100 * dailyGoal

\* progress >= 100 with progress = ((waterIntake + amount) / dailyGoal) * 100
\* (lines 177-179).
GoalReached(amount) ==
  LET total == DoubleSum(waterIntake, amount)
  IN  total = Infinity \/ total * 100 >= 100 * dailyGoal

\* Mutant of IssueFetch: the request sent without setIsLoading(true).
IssueFetchNoLoading(location) ==
  /\ UNCHANGED isLoading
  /\ inflight' = Append(inflight,
                        [location |-> location,
                         atIssue |-> [waterIntake |-> waterIntake,
                                      dailyGoal |-> dailyGoal,
                                      waterTasks |-> waterTasks]])

\* fetchWeather up to its await (lines 83-92), called at line 170.
IssueFetch(location) ==
  /\ isLoading' = TRUE
  /\ inflight' = Append(inflight,
                        [location |-> location,
                         atIssue |-> [waterIntake |-> waterIntake,
                                      dailyGoal |-> dailyGoal,
                                      waterTasks |-> waterTasks]])

\* History: the sum of two amounts as numbers, not rounded; an amount that is
\* Infinity makes it Infinity.
ExactSum(a, b) == IF a = Infinity \/ b = Infinity THEN Infinity ELSE a + b

\* History: the amount a submit logs, 0 when it logs none.
LoggedBy(input) ==
  IF SubmitRejected(input) \/ Classify(Trim(input)) # "VolumeLog"
    THEN 0
    ELSE ParseAmount(Trim(input))

\* History: the amounts of the first n tasks that are completed in after and
\* were not in before.
RECURSIVE NewlyCompletedUpTo(_, _, _)
NewlyCompletedUpTo(before, after, n) ==
  IF n = 0 THEN 0
  ELSE NewlyCompletedUpTo(before, after, n - 1)
         + (IF after[n].completed /\ ~before[n].completed
              THEN after[n].amount ELSE 0)

\* History: the amounts of the tasks a step turned completed.
NewlyCompleted(before, after) == NewlyCompletedUpTo(before, after, Len(after))

\* handleSendMessage up to its first await, or whole when it does not fetch
\* (lines 155-187).
handleSendMessage(input) ==
  /\ lastEvent' = [op |-> "handleSendMessage", arg |-> input, pre |-> View]
  /\ ledger' = [ledger EXCEPT !.logged = ExactSum(@, LoggedBy(input))]
  /\ IF SubmitRejected(input)
       THEN UNCHANGED <<messages, isLoading, weather, waterIntake, dailyGoal,
                        waterTasks, currentLocation, inflight>>
       ELSE LET userMessage == Trim(input)
                withUser == Append(messages, UserMessage(userMessage))
            IN  CASE Classify(userMessage) = "Location" ->
                       /\ messages' = withUser
                       /\ IssueFetch(userMessage)
                       /\ UNCHANGED <<weather, waterIntake, dailyGoal,
                                      waterTasks, currentLocation>>
                  [] Classify(userMessage) = "VolumeLog" ->
                       LET amount == ParseAmount(userMessage)
                       IN  /\ waterIntake' = DoubleSum(waterIntake, amount)
                           /\ messages' =
                                addBotMessage(withUser,
                                              IF GoalReached(amount)
                                                THEN "goalReached"
                                                ELSE "progress")
                           /\ UNCHANGED <<isLoading, weather, dailyGoal,
                                          waterTasks, currentLocation, inflight>>
                  [] OTHER ->
                       /\ messages' = addBotMessage(withUser, "help")
                       /\ UNCHANGED <<isLoading, weather, waterIntake, dailyGoal,
                                      waterTasks, currentLocation, inflight>>

\* The sequence without its k-th element.
RemoveAt(seq, k) == SubSeq(seq, 1, k - 1) \o SubSeq(seq, k + 1, Len(seq))

\* weatherData built from the response (lines 94-98); the response carries the
\* temperature in half degrees, so that Math.round has something to round.
WeatherData(response) ==
  [temp |-> MathRound(response.tempHalves, 2),
   humidity |-> response.humidity,
   description |-> response.description]

\* Mutant of ResolveEffects: a new plan starts the intake over.
ResolveEffectsResetIntake(k, response, rnd) ==
  LET roundedIntake == RoundedIntake(WeatherData(response))
  IN  /\ weather' = WeatherData(response)
      /\ currentLocation' = inflight[k].location
      /\ dailyGoal' = roundedIntake
      /\ waterTasks' = generateTasks(roundedIntake, rnd)
      /\ messages' = addBotMessage(addBotMessage(messages, "recommendation"),
                                  "weatherReport")
      /\ isLoading' = FALSE
      /\ waterIntake' = 0

\* Mutant of ResolveEffects: the fresh batch inherits the completion flags of
\* the tasks it replaces.
ResolveEffectsMergeDone(k, response, rnd) ==
  LET weatherData == WeatherData(response)
      roundedIntake == RoundedIntake(weatherData)
      fresh == generateTasks(roundedIntake, rnd)
      wasDone(taskId) ==
        \E n \in 1..Len(waterTasks) :
          waterTasks[n].id = taskId /\ waterTasks[n].completed
  IN  /\ weather' = weatherData
      /\ currentLocation' = inflight[k].location
      /\ dailyGoal' = roundedIntake
      /\ waterTasks' = [n \in 1..Len(fresh) |->
                          [fresh[n] EXCEPT !.completed = wasDone(fresh[n].id)]]
      /\ messages' = addBotMessage(addBotMessage(messages, "recommendation"),
                                  "weatherReport")
      /\ isLoading' = FALSE
      /\ UNCHANGED waterIntake

\* What the try block sets once the awaited request k resolved (lines 94-105,
\* with calculateHydrationNeeds, lines 125-140), and the finally block.
ResolveEffects(k, response, rnd) ==
  LET weatherData == WeatherData(response)
      roundedIntake == RoundedIntake(weatherData)
  IN  /\ weather' = weatherData
      /\ currentLocation' = inflight[k].location
      /\ dailyGoal' = roundedIntake
      /\ waterTasks' = generateTasks(roundedIntake, rnd)
      /\ messages' = addBotMessage(addBotMessage(messages, "recommendation"),
                                  "weatherReport")
      /\ isLoading' = FALSE
      /\ UNCHANGED waterIntake

\* The continuation of fetchWeather after a resolved request.
FetchSuccess(k, response, rnd) ==
  /\ k \in 1..Len(inflight)
  /\ lastEvent' = [op |-> "fetchSuccess", arg |-> inflight[k], pre |-> View]
  /\ ledger' = [ledger EXCEPT !.sinceBatch = 0]
  /\ inflight' = RemoveAt(inflight, k)
  /\ ResolveEffects(k, response, rnd)

\* The ways the awaited request fails: the three of the catch block's
\* axios branch (lines 108-117), and an error that is no axios error.
FailureKinds == {"Unauthorized", "NotFound", "Unavailable", "NotAxios"}

\* The messages the catch block (lines 106-119) appends.
CatchMessages(kind) ==
  CASE kind = "Unauthorized" -> <<BotMessage("serviceTrouble")>>
    [] kind = "NotFound" -> <<BotMessage("locationNotFound")>>
    [] kind = "Unavailable" -> <<BotMessage("weatherTrouble")>>
    [] OTHER -> << >>

\* Mutant of RejectEffects: a failed fetch drops the plan.
RejectEffectsDropPlan(kind) ==
  /\ messages' = addBotMessage(messages \o CatchMessages(kind), "retryHint")
  /\ isLoading' = FALSE
  /\ dailyGoal' = BaseIntake
  /\ waterTasks' = << >>
  /\ UNCHANGED <<weather, waterIntake, currentLocation>>

\* Mutant of RejectEffects: no finally block, the loading flag stays set.
RejectEffectsNoFinally(kind) ==
  /\ messages' = addBotMessage(messages \o CatchMessages(kind), "retryHint")
  /\ UNCHANGED <<isLoading, weather, waterIntake, dailyGoal, waterTasks,
                 currentLocation>>

\* What the catch and finally blocks and the caller's !weatherData branch set
\* (lines 106-122, 171-173).
RejectEffects(kind) ==
  /\ messages' = addBotMessage(messages \o CatchMessages(kind), "retryHint")
  /\ isLoading' = FALSE
  /\ UNCHANGED <<weather, waterIntake, dailyGoal, waterTasks, currentLocation>>

\* The continuation of fetchWeather and of handleSendMessage after a failed request.
FetchFailure(k, kind) ==
  /\ k \in 1..Len(inflight)
  /\ lastEvent' = [op |-> "fetchFailure", arg |-> inflight[k], pre |-> View]
  /\ UNCHANGED ledger
  /\ inflight' = RemoveAt(inflight, k)
  /\ RejectEffects(kind)

\* handleTaskCompletion(taskId) (lines 142-153).
handleTaskCompletion(taskId) ==
  /\ lastEvent' = [op |-> "handleTaskCompletion", arg |-> taskId, pre |-> View]
  /\ waterTasks' = MarkCompleted(waterTasks, taskId)
  /\ waterIntake' = DoubleSum(waterIntake, IntakeDelta(waterTasks, taskId))
  /\ UNCHANGED <<messages, isLoading, weather, dailyGoal, currentLocation,
                 inflight>>
  /\ ledger' = [ledger EXCEPT
                  !.completed = @ + NewlyCompleted(waterTasks, waterTasks'),
                  !.sinceBatch = @ + NewlyCompleted(waterTasks, waterTasks')]

-----------------------------------------------------------------------------
(* Inputs.                                                                 *)

\* The values the whole part of Math.random() * 59 is sampled at: 0 .. 58.
MinuteSamples ==
  {(j * (MinuteScale - 1)) \div (NumMinuteSamples - 1) : j \in 0..(NumMinuteSamples - 1)}

\* Every draw of the eight minutes over the samples.
MinuteDraws == [0..(TasksCount - 1) -> MinuteSamples]

\* The draws of the session: every task gets the same sampled minute.
SessionDraws == {[i \in 0..(TasksCount - 1) |-> m] : m \in MinuteSamples}

\* Responses of the session: 25.0 C / 60 %, 30.0 C / 70 %, 30.5 C / 70 %.
SessionResponses ==
  {[tempHalves |-> 50, humidity |-> 60, description |-> "clear sky"],
   [tempHalves |-> 60, humidity |-> 70, description |-> "clear sky"],
   [tempHalves |-> 61, humidity |-> 70, description |-> "clear sky"]}

\* Chat lines of the session: nothing, a blank and a tab, a place, a place
\* between a tab and a no-break space, "250ml", "2000ml", "250".
SessionTexts ==
  {<< >>, <<" ", "\t">>, <<"L", "a">>, <<"\t", "L", "a", "U+00A0">>,
   <<"2", "5", "0", "m", "l">>, <<"2", "0", "0", "0", "m", "l">>,
   <<"2", "5", "0">>}

\* The task ids the session taps, and one no batch holds.
TapIds == {TaskId(i) : i \in 0..NumTapIds} \cup {TaskId(TasksCount)}

-----------------------------------------------------------------------------
(* The session.                                                            *)

Submit == \E input \in SessionTexts : handleSendMessage(input)

Resolve ==
  \E k \in 1..Len(inflight), response \in SessionResponses, rnd \in SessionDraws :
    FetchSuccess(k, response, rnd)

Reject == \E k \in 1..Len(inflight), kind \in FailureKinds : FetchFailure(k, kind)

Tap == \E taskId \in TapIds : handleTaskCompletion(taskId)

\* The chat history is explored up to MaxMessages messages.
RoomForSubmit == Len(messages) + 3 <= MaxMessages

Next ==
  \/ RoomForSubmit /\ Submit
  \/ Resolve
  \/ Reject
  \/ Tap

Spec == Init /\ [][Next]_vars

\* The awaited request settles: the network answers or fails.
FetchResponse == Resolve \/ Reject

SpecFair == Spec /\ WF_vars(FetchResponse)

-----------------------------------------------------------------------------
(* The planner on its own: one location submit, then the response and the  *)
(* draws range over wider sets.                                            *)

\* No location has been submitted yet.
FirstSubmit == Len(messages) = Len(Greetings)

\* Responses from 25 - TempSpan to 25 + TempSpan degrees in half degrees, and
\* from 60 - HumSpan to 60 + HumSpan percent.
PlannerResponses ==
  {[tempHalves |-> t, humidity |-> h, description |-> "clear sky"] :
     t \in (2 * (TempThreshold - TempSpan))..(2 * (TempThreshold + TempSpan)),
     h \in (HumidityThreshold - HumSpan)..(HumidityThreshold + HumSpan)}

ResolveWide ==
  \E k \in 1..Len(inflight), response \in PlannerResponses, rnd \in SessionDraws :
    FetchSuccess(k, response, rnd)

NextGoal ==
  \/ FirstSubmit /\ handleSendMessage(<<"P", "a", "r", "i", "s">>)
  \/ ResolveWide

SpecGoal == Init /\ [][NextGoal]_vars

\* Responses of whole degrees from 25 to 25 + GoalSteps and of 60 to
\* 60 + GoalSteps percent: goals of every remainder modulo 8 a goal can have.
ScheduleResponses ==
  {[tempHalves |-> 2 * (TempThreshold + a), humidity |-> HumidityThreshold + b,
    description |-> "clear sky"] : a \in 0..GoalSteps, b \in 0..GoalSteps}

ResolveDraws ==
  \E k \in 1..Len(inflight), response \in ScheduleResponses, rnd \in MinuteDraws :
    FetchSuccess(k, response, rnd)

NextSchedule ==
  \/ FirstSubmit /\ handleSendMessage(<<"P", "a", "r", "i", "s">>)
  \/ ResolveDraws

SpecSchedule == Init /\ [][NextSchedule]_vars

-----------------------------------------------------------------------------
(* The classifier on its own: the first chat line ranges over every text   *)
(* of a small alphabet, and over the examples.                             *)

ClassifyAlphabet == {"2", "5", "m", "l", "M", "L", " ", "\t", "."}

\* Every text over the alphabet of at most n characters.
RECURSIVE TextsUpTo(_)
TextsUpTo(n) ==
  IF n = 0 THEN {<< >>}
  ELSE LET shorter == TextsUpTo(n - 1)
       IN  shorter \cup {Append(t, c) : t \in shorter, c \in ClassifyAlphabet}

\* "Paris", "250ml", "drink 250 ml now", "250", "2 5ml", "2.5ml", "5 Lml",
\* "ml 250", "250 Ml", "250<NBSP>ml", "New<LF>York", "<ZWNBSP>250ml<LS>".
ExampleTexts ==
  {<<"P", "a", "r", "i", "s">>,
   <<"2", "5", "0", "m", "l">>,
   <<"d", "r", "i", "n", "k", " ", "2", "5", "0", " ", "m", "l", " ", "n", "o", "w">>,
   <<"2", "5", "0">>,
   <<"2", " ", "5", "m", "l">>,
   <<"2", ".", "5", "m", "l">>,
   <<"5", " ", "L", "m", "l">>,
   <<"m", "l", " ", "2", "5", "0">>,
   <<"2", "5", "0", " ", "M", "l">>,
   <<"2", "5", "0", "U+00A0", "m", "l">>,
   <<"N", "e", "w", "\n", "Y", "o", "r", "k">>,
   <<"U+FEFF", "2", "5", "0", "m", "l", "U+2028">>}

ClassifyTexts == TextsUpTo(MaxTextLen) \cup ExampleTexts

NextClassify ==
  FirstSubmit /\ \E input \in ClassifyTexts : handleSendMessage(input)

SpecClassify == Init /\ [][NextClassify]_vars

-----------------------------------------------------------------------------
(* The accounting session, driven through the rendered controls: volumes   *)
(* are logged, plans are fetched and replaced, and the tasks of a batch    *)
(* are completed in any order. The text input and the submit button are    *)
(* disabled while a fetch is pending (lines 258, 262), and the button of   *)
(* a completed task is disabled (line 332).                                *)

\* "La", "250ml".
LedgerTexts == {<<"L", "a">>, <<"2", "5", "0", "m", "l">>}

\* 30.0 C / 70 %.
LedgerResponses ==
  {[tempHalves |-> 60, humidity |-> 70, description |-> "clear sky"]}

\* The enabled task buttons of the panel (lines 310, 331-332).
EnabledTapIds ==
  {waterTasks[k].id : k \in {n \in 1..Len(waterTasks) : ~waterTasks[n].completed}}

\* The form submitted with its controls enabled (lines 249, 258, 262).
SubmitLedger ==
  ~isLoading /\ \E input \in LedgerTexts : handleSendMessage(input)

\* Every task drawn at minute 0.
LedgerDraws == {[i \in 0..(TasksCount - 1) |-> 0]}

ResolveLedger ==
  \E k \in 1..Len(inflight), response \in LedgerResponses, rnd \in LedgerDraws :
    FetchSuccess(k, response, rnd)

TapAny == \E taskId \in EnabledTapIds : handleTaskCompletion(taskId)

\* The request fails with a status other than 401 and 404.
RejectLedger == \E k \in 1..Len(inflight) : FetchFailure(k, "Unavailable")

RoomForLedgerSubmit == Len(messages) + 3 <= MaxLedgerMessages

NextLedger ==
  \/ RoomForLedgerSubmit /\ SubmitLedger
  \/ ResolveLedger
  \/ RejectLedger
  \/ TapAny

SpecLedger == Init /\ [][NextLedger]_vars

-----------------------------------------------------------------------------
(* Properties.                                                             *)

\* The last event was the handler or continuation `op`.
Handled(op) == lastEvent.op = op

\* The batch holds a task of this id / a completed task of this id.
InBatch(tasks, taskId) == \E k \in 1..Len(tasks) : tasks[k].id = taskId
DoneInBatch(tasks, taskId) ==
  \E k \in 1..Len(tasks) : tasks[k].id = taskId /\ tasks[k].completed

\* The sum of f over the indices of a finite set.
RECURSIVE SumOver(_, _)
SumOver(f, indices) ==
  IF indices = {} THEN 0
  ELSE LET k == CHOOSE x \in indices : TRUE
       IN  f[k] + SumOver(f, indices \ {k})

(* C1: handling the complete-task event for an id whose task is already    *)
(* completed, or for an id the batch does not hold, adds 0 to waterIntake  *)
(* and leaves the batch as it was, the task still completed; handling it   *)
(* for a task not yet completed adds the task's amount once and marks it.  *)
C1_CompletionIdempotent ==
  Handled("handleTaskCompletion") =>
    LET taskId == lastEvent.arg
        before == lastEvent.pre
    IN  /\ (DoneInBatch(before.waterTasks, taskId)
              \/ ~InBatch(before.waterTasks, taskId))
             => /\ waterIntake = before.waterIntake
                /\ waterTasks = before.waterTasks
        /\ DoneInBatch(before.waterTasks, taskId) => DoneInBatch(waterTasks, taskId)
        /\ \A k \in 1..Len(before.waterTasks) :
             (before.waterTasks[k].id = taskId /\ ~before.waterTasks[k].completed)
               => /\ waterIntake = before.waterIntake + before.waterTasks[k].amount
                  /\ waterTasks[k].completed

\* The complete-task event was handled again for a task already completed,
\* after intake had been counted for it.
C1_Witness ==
  /\ Handled("handleTaskCompletion")
  /\ DoneInBatch(lastEvent.pre.waterTasks, lastEvent.arg)
  /\ waterIntake > 0

\* The task-completion events since the fetch was issued account for the
\* difference between the state at issue and now: the same tasks, some newly
\* completed, and their amounts added to the intake.
OnlyCompletionsSince(at) ==
  /\ Len(waterTasks) = Len(at.waterTasks)
  /\ \A k \in 1..Len(waterTasks) :
       \/ waterTasks[k] = at.waterTasks[k]
       \/ /\ ~at.waterTasks[k].completed
          /\ waterTasks[k] = [at.waterTasks[k] EXCEPT !.completed = TRUE]
  /\ waterIntake = at.waterIntake
       + SumOver([k \in 1..Len(waterTasks) |-> waterTasks[k].amount],
                 {k \in 1..Len(waterTasks) :
                    waterTasks[k].completed /\ ~at.waterTasks[k].completed})

(* C2 as stated: after the failure continuation, waterIntake, dailyGoal    *)
(* and the batch are what they were when the fetch was issued.             *)
C2_AsIssued ==
  Handled("fetchFailure") =>
    /\ waterIntake = lastEvent.arg.atIssue.waterIntake
    /\ dailyGoal = lastEvent.arg.atIssue.dailyGoal
    /\ waterTasks = lastEvent.arg.atIssue.waterTasks

(* C2, amended: the failure continuation leaves waterIntake, dailyGoal,    *)
(* the batch, the weather and the location as they were right before it    *)
(* ran and changes only the messages (appended to) and the loading flag;   *)
(* against the state at issue the goal is the same, and intake and batch   *)
(* differ at most by the task completions handled while the fetch was      *)
(* pending.                                                                *)
C2_FailureKeepsState ==
  Handled("fetchFailure") =>
    LET before == lastEvent.pre
    IN  /\ waterIntake = before.waterIntake
        /\ dailyGoal = before.dailyGoal
        /\ waterTasks = before.waterTasks
        /\ weather = before.weather
        /\ currentLocation = before.currentLocation
        /\ Len(messages) > Len(before.messages)
        /\ SubSeq(messages, 1, Len(before.messages)) = before.messages
        /\ ~isLoading
        /\ dailyGoal = lastEvent.arg.atIssue.dailyGoal
        /\ OnlyCompletionsSince(lastEvent.arg.atIssue)

\* A fetch failed after a task was completed while it was pending, with a
\* goal and a batch other than the initial ones.
C2_Witness ==
  /\ Handled("fetchFailure")
  /\ waterIntake > lastEvent.arg.atIssue.waterIntake
  /\ dailyGoal > BaseIntake

\* a >= b for numbers that are natural or Infinity.
AtLeast(a, b) == a = Infinity \/ (b # Infinity /\ a >= b)

(* C3: no event lowers waterIntake: after every handler and continuation   *)
(* it is at least what it was before, and it is never below 0.             *)
C3_IntakeMonotone ==
  /\ AtLeast(waterIntake, 0)
  /\ ~Handled("mount") => AtLeast(waterIntake, lastEvent.pre.waterIntake)

\* A new batch replaced one with completed tasks and the intake was kept.
C3_Witness ==
  /\ Handled("fetchSuccess")
  /\ DoneInBatch(lastEvent.pre.waterTasks, TaskId(0))
  /\ waterIntake > 0

(* C4: the batch a successful fetch generates has exactly 8 tasks with     *)
(* pairwise distinct ids, none completed, each of the amount nearest to    *)
(* dailyGoal / 8 (a half rounding up), in ascending order of time, the     *)
(* amounts summing to dailyGoal within 8.                                  *)
C4_ScheduleShape ==
  Handled("fetchSuccess") =>
    LET n == Len(waterTasks)
        total == SumOver([k \in 1..n |-> waterTasks[k].amount], 1..n)
    IN  /\ n = 8
        /\ \A j, k \in 1..n : j # k => waterTasks[j].id # waterTasks[k].id
        /\ \A k \in 1..n :
             /\ ~waterTasks[k].completed
             /\ 2 * (8 * waterTasks[k].amount - dailyGoal) \in (-7)..8
        /\ \A k \in 1..(n - 1) : waterTasks[k].time <= waterTasks[k + 1].time
        /\ total >= dailyGoal - 8
        /\ total <= dailyGoal + 8

\* A batch generated for a goal that is no multiple of 8, with a task at
\* minute 58 followed by a task at minute 0.
C4_Witness ==
  /\ Handled("fetchSuccess")
  /\ dailyGoal % 8 = 4
  /\ \E k \in 1..(Len(waterTasks) - 1) :
       waterTasks[k].time % 60 = 58 /\ waterTasks[k + 1].time % 60 = 0

\* The surcharge of so many units over a threshold, none at or under it.
Over(value, threshold) == IF value - threshold > 0 THEN value - threshold ELSE 0

(* C5: dailyGoal is 2000 + 50 per degree over 25 + 20 per percent over 60  *)
(* of the weather it was computed from, with no surcharge at exactly 25    *)
(* degrees or 60 percent, and is at least 2000 in every state.             *)
C5_GoalFormula ==
  /\ dailyGoal >= 2000
  /\ weather = NoWeather => dailyGoal = 2000
  /\ weather # NoWeather =>
       /\ dailyGoal = 2000 + Over(weather.temp, 25) * 50
                           + Over(weather.humidity, 60) * 20
       /\ weather.temp <= 25 /\ weather.humidity <= 60 => dailyGoal = 2000

\* The goal was computed for a temperature under 25 and a humidity over 60.
C5_Witness ==
  /\ Handled("fetchSuccess")
  /\ weather.temp < 25
  /\ weather.humidity > 60
  /\ dailyGoal > 2000

\* The text between the first and the last character that is no white space.
Trimmed(input) ==
  LET solid == {p \in 1..Len(input) : input[p] \notin WhiteSpace}
  IN  IF solid = {} THEN << >>
      ELSE SubSeq(input,
                  CHOOSE p \in solid : \A q \in solid : p <= q,
                  CHOOSE p \in solid : \A q \in solid : q <= p)

\* Only letters and white space.
LettersAndSpacesOnly(text) == \A p \in 1..Len(text) : text[p] \in LetterOrSpace

\* A run of digits, then any white space, then "ml", "ML" or "mL".
DigitsThenUnitAdjacent(text) ==
  \E i, j, k \in 1..Len(text) :
    /\ i <= j /\ j < k /\ k + 1 <= Len(text)
    /\ \A p \in i..j : text[p] \in Digits
    /\ \A p \in (j + 1)..(k - 1) : text[p] \in WhiteSpace
    /\ <<text[k], text[k + 1]>> \in {<<"m", "l">>, <<"M", "L">>, <<"m", "L">>}

\* A digit, and anywhere after it "ml" in any letter case.
DigitsThenUnitAnywhere(text) ==
  \E i, k \in 1..Len(text) :
    /\ i < k /\ k + 1 <= Len(text)
    /\ text[i] \in Digits
    /\ text[k] \in {"m", "M"}
    /\ text[k + 1] \in {"l", "L"}

RECURSIVE Pow10(_)
Pow10(n) == IF n = 0 THEN 1 ELSE 10 * Pow10(n - 1)

\* The decimal value of the first maximal run of digits of a text holding one.
FirstRunValue(text) ==
  LET digitAt == {p \in 1..Len(text) : text[p] \in Digits}
      i == CHOOSE p \in digitAt : \A q \in digitAt : p <= q
      j == CHOOSE p \in i..Len(text) :
             /\ \A q \in i..p : q \in digitAt
             /\ (p + 1) \notin digitAt
  IN  SumOver([p \in i..j |-> DigitVal(text[p]) * Pow10(j - p)], i..j)

\* The last submit took the VolumeLog branch with this amount.
LoggedVolume(amount) ==
  /\ waterIntake = lastEvent.pre.waterIntake + amount
  /\ Len(messages) = Len(lastEvent.pre.messages) + 2
  /\ messages[Len(messages)].template \in {"progress", "goalReached"}
  /\ inflight = lastEvent.pre.inflight

\* The last submit took the Unrecognized branch.
AnsweredHelp ==
  /\ waterIntake = lastEvent.pre.waterIntake
  /\ Len(messages) = Len(lastEvent.pre.messages) + 2
  /\ messages[Len(messages)].template = "help"
  /\ inflight = lastEvent.pre.inflight

\* The last event was a submit of a text that is neither empty once trimmed
\* nor letters and white space only, while no fetch was pending.
SubmittedOther ==
  /\ Handled("handleSendMessage")
  /\ ~lastEvent.pre.isLoading
  /\ Trimmed(lastEvent.arg) # << >>
  /\ ~LettersAndSpacesOnly(Trimmed(lastEvent.arg))

(* C6 as stated: a text with a digit followed anywhere later by "ml" in    *)
(* any letter case is logged as a volume of its first digit run; a text    *)
(* with no such token is unrecognized.                                     *)
C6_UnitAnywhere ==
  SubmittedOther =>
    LET text == Trimmed(lastEvent.arg)
    IN  IF DigitsThenUnitAnywhere(text)
          THEN LoggedVolume(FirstRunValue(text))
          ELSE AnsweredHelp

(* C6, amended: a text that is not letters and white space only is logged  *)
(* as a volume exactly when it holds a run of digits followed, after white *)
(* space only, by "ml", "ML" or "mL"; the amount is the first digit run of *)
(* the whole text read as a decimal integer. Any other such text, "250"    *)
(* among them, is unrecognized.                                            *)
C6_UnitAdjacent ==
  SubmittedOther =>
    LET text == Trimmed(lastEvent.arg)
    IN  IF DigitsThenUnitAdjacent(text)
          THEN LoggedVolume(FirstRunValue(text))
          ELSE AnsweredHelp

\* "2 5ml" was logged as 2 ml: the unit follows the second digit run, the
\* amount is the first.
C6_Witness ==
  /\ SubmittedOther
  /\ lastEvent.arg = <<"2", " ", "5", "m", "l">>
  /\ waterIntake = 2

(* C7: a submit, while no fetch is pending, of a text that is non-empty    *)
(* once trimmed and holds only letters and white space appends the user's  *)
(* message and issues exactly one fetch, for the trimmed text, and logs no *)
(* volume; a submit of a text that is empty once trimmed changes nothing.  *)
C7_LocationOrIgnored ==
  (Handled("handleSendMessage") /\ ~lastEvent.pre.isLoading) =>
    LET text == Trimmed(lastEvent.arg)
        before == lastEvent.pre
    IN  /\ text = << >> => View = before
        /\ (text # << >> /\ LettersAndSpacesOnly(text)) =>
             /\ Len(inflight) = Len(before.inflight) + 1
             /\ inflight[Len(inflight)].location = text
             /\ SubSeq(inflight, 1, Len(before.inflight)) = before.inflight
             /\ isLoading
             /\ messages = Append(before.messages, UserMessage(text))
             /\ waterIntake = before.waterIntake
             /\ dailyGoal = before.dailyGoal
             /\ waterTasks = before.waterTasks
        /\ (text # << >> /\ ~LettersAndSpacesOnly(text)) =>
             Len(inflight) = Len(before.inflight)

\* A padded place name was submitted and fetched by its trimmed text.
C7_Witness ==
  /\ Handled("handleSendMessage")
  /\ lastEvent.arg = <<"\t", "L", "M", " ">>
  /\ Len(inflight) = 1
  /\ inflight[1].location = <<"L", "M">>

(* C8: at most one fetch is in flight, isLoading is true exactly while one *)
(* is, and a submit handled while a fetch is pending changes nothing: no   *)
(* message is appended and no fetch is issued.                             *)
C8_OneFetchInFlight ==
  /\ Len(inflight) <= 1
  /\ isLoading <=> inflight # << >>
  /\ (Handled("handleSendMessage") /\ lastEvent.pre.isLoading) =>
       View = lastEvent.pre

\* A place name was submitted while a fetch was pending.
C8_Witness ==
  /\ Handled("handleSendMessage")
  /\ lastEvent.pre.isLoading
  /\ Trimmed(lastEvent.arg) # << >>
  /\ LettersAndSpacesOnly(Trimmed(lastEvent.arg))
  /\ Len(inflight) = 1

(* C9 as stated: between the issue of a fetch and its continuation no chat *)
(* submit and no complete-task event is processed: either handler, run     *)
(* while the request is pending, leaves the state as it was.               *)
C9_NothingWhilePending ==
  ((Handled("handleSendMessage") \/ Handled("handleTaskCompletion"))
     /\ lastEvent.pre.inflight # << >>)
    => View = lastEvent.pre

(* C9, amended: while a fetch is pending a chat submit is not processed    *)
(* (the state stays as it was), but a complete-task event is: it marks the *)
(* task completed and adds its amount to waterIntake as at any other time, *)
(* and leaves the messages, the loading flag, the goal, the weather and    *)
(* the pending request as they were.                                       *)
C9_OnlyCompletionsWhilePending ==
  /\ (Handled("handleSendMessage") /\ lastEvent.pre.inflight # << >>)
       => View = lastEvent.pre
  /\ (Handled("handleTaskCompletion") /\ lastEvent.pre.inflight # << >>)
       => /\ [View EXCEPT !.waterIntake = 0, !.waterTasks = << >>]
               = [lastEvent.pre EXCEPT !.waterIntake = 0, !.waterTasks = << >>]
          /\ waterTasks = [k \in 1..Len(lastEvent.pre.waterTasks) |->
                             IF lastEvent.pre.waterTasks[k].id = lastEvent.arg
                               THEN [lastEvent.pre.waterTasks[k]
                                       EXCEPT !.completed = TRUE]
                               ELSE lastEvent.pre.waterTasks[k]]
          /\ waterIntake - lastEvent.pre.waterIntake
               = SumOver([k \in 1..Len(waterTasks) |-> waterTasks[k].amount],
                         {k \in 1..Len(waterTasks) :
                            /\ waterTasks[k].completed
                            /\ ~lastEvent.pre.waterTasks[k].completed})

\* A task was completed, and its amount counted, while a fetch was pending.
C9_Witness ==
  /\ Handled("handleTaskCompletion")
  /\ lastEvent.pre.inflight # << >>
  /\ waterIntake > lastEvent.pre.waterIntake
  /\ isLoading

(* C10: under weak fairness of the fetch response, whenever isLoading is   *)
(* true it is eventually false again.                                      *)
C10_LoadingEnds == isLoading ~> ~isLoading

\* After a failed fetch the next place name was accepted and fetched.
C10_Witness ==
  /\ Handled("handleSendMessage")
  /\ isLoading
  /\ \E k \in 1..Len(messages) : messages[k].template = "retryHint"

\* The last event was a submit, while no fetch was pending, of a text the
\* volume rule takes.
SubmittedVolume ==
  /\ SubmittedOther
  /\ DigitsThenUnitAdjacent(Trimmed(lastEvent.arg))

(* C11: handling a volume log adds exactly its amount to waterIntake and   *)
(* leaves dailyGoal, the batch and everything but the messages unchanged;  *)
(* after the user's message it appends the congratulatory message if the   *)
(* new waterIntake is at least dailyGoal, and the progress message         *)
(* otherwise.                                                              *)
C11_VolumeLogged ==
  SubmittedVolume =>
    LET text == Trimmed(lastEvent.arg)
        before == lastEvent.pre
    IN  /\ waterIntake = before.waterIntake + FirstRunValue(text)
        /\ [View EXCEPT !.waterIntake = 0, !.messages = << >>]
             = [before EXCEPT !.waterIntake = 0, !.messages = << >>]
        /\ Len(messages) = Len(before.messages) + 2
        /\ SubSeq(messages, 1, Len(before.messages)) = before.messages
        /\ messages[Len(messages) - 1] = UserMessage(text)
        /\ messages[Len(messages)].type = "bot"
        /\ AtLeast(waterIntake, dailyGoal)
             <=> (messages[Len(messages)].template = "goalReached")
        /\ ~AtLeast(waterIntake, dailyGoal)
             <=> (messages[Len(messages)].template = "progress")

\* With the goal at 2000 and nothing drunk, "2000ml" was logged and answered
\* by the congratulatory message.
C11_Witness ==
  /\ SubmittedVolume
  /\ lastEvent.arg = <<"2", "0", "0", "0", "m", "l">>
  /\ lastEvent.pre.waterIntake = 0
  /\ dailyGoal = 2000
  /\ waterIntake = 2000
  /\ messages[Len(messages)].template = "goalReached"

\* The amounts of the batch, by position.
BatchAmounts == [k \in 1..Len(waterTasks) |-> waterTasks[k].amount]

\* The distance between two integers.
Distance(a, b) == IF a >= b THEN a - b ELSE b - a

(* C12: after every successful weather fetch dailyGoal is the goal of the   *)
(* weather just stored, the batch holds 8 tasks none of which is completed, *)
(* whatever was completed in the batch it replaces, the amounts sum to the  *)
(* goal up to the rounding of goal / 8, and waterIntake is what it was      *)
(* before the fetch resolved; 30 degrees and 70 percent give 2450 and       *)
(* amounts summing to 2448.                                                 *)
C12_FetchReplacesPlan ==
  Handled("fetchSuccess") =>
    /\ dailyGoal = 2000 + Over(weather.temp, 25) * 50
                        + Over(weather.humidity, 60) * 20
    /\ Len(waterTasks) = 8
    /\ \A k \in 1..Len(waterTasks) : ~waterTasks[k].completed
    /\ \A k \in 1..Len(waterTasks) : 8 * waterTasks[k].amount \in
                                       (dailyGoal - 4)..(dailyGoal + 4)
    /\ Distance(SumOver(BatchAmounts, 1..Len(waterTasks)), dailyGoal) <= 4
    /\ waterIntake = lastEvent.pre.waterIntake
    /\ (weather.temp = 30 /\ weather.humidity = 70) =>
         /\ dailyGoal = 2450
         /\ SumOver(BatchAmounts, 1..Len(waterTasks)) = 2448

\* A fetch for 30 degrees and 70 percent resolved over a batch that held a
\* completed task, with water already drunk.
C12_Witness ==
  /\ Handled("fetchSuccess")
  /\ \E k \in 1..Len(lastEvent.pre.waterTasks) :
       lastEvent.pre.waterTasks[k].completed
  /\ lastEvent.pre.waterIntake > 0
  /\ weather.temp = 30
  /\ weather.humidity = 70
  /\ dailyGoal = 2450
  /\ Len(waterTasks) = 8

\* round(dailyGoal / 8), the half rounded up.
EighthOfGoal == CHOOSE a \in 0..dailyGoal : 16 * a - 8 <= 2 * dailyGoal
                                            /\ 2 * dailyGoal < 16 * a + 8

(* C13: in every state waterIntake is the sum of the amounts logged as     *)
(* volumes and of the amounts of the tasks that became completed, over all *)
(* batches including the replaced ones; and what the completions of the    *)
(* current batch have added is at most 8 * round(dailyGoal / 8).           *)
C13_Accounting ==
  /\ waterIntake = ExactSum(ledger.logged, ledger.completed)
  /\ ledger.sinceBatch <= 8 * EighthOfGoal
  /\ ledger.sinceBatch <= ledger.completed

\* A volume was logged, a task of a batch since replaced was completed, and
\* all eight tasks of the current batch are completed.
C13_Witness ==
  /\ ledger.logged > 0
  /\ ledger.completed > ledger.sinceBatch
  /\ Len(waterTasks) = 8
  /\ \A k \in 1..Len(waterTasks) : waterTasks[k].completed
  /\ ledger.sinceBatch = 8 * EighthOfGoal
  /\ waterIntake = ledger.logged + ledger.completed

=============================================================================
